---- MODULE Spec2Model ----
(***************************************************************************)
(* Model of the vault core of cocoon (src-tauri/src/commands.rs): the      *)
(* master verifier file, the encrypted vault container, and the commands   *)
(* of the invoke_handler surface that read and write them.                 *)
(*                                                                         *)
(* Cryptography is modelled symbolically.  Argon2 is an injective function *)
(* of (password, salt); AES-256-GCM ciphertext is a term that remembers    *)
(* the plaintext, key and nonce it was made from and opens only under the  *)
(* same key and nonce; the OS random generator never returns a value       *)
(* twice (rng counts the draws).                                           *)
(***************************************************************************)
EXTENDS Integers, Sequences, FiniteSets, TLC

VARIABLES
    hashFile,        \* master.hash: the PHC verifier record, or no file
    vaultFile,       \* vault.cocoon: the EncryptedPasswordStore, or no file
    rng,             \* number of values drawn from the OS random generator
    ret,             \* what the last command returned to its caller
    issued,          \* history: ids returned by successful add_entry calls on the current vault
    encHistory,      \* history: <<key, nonce>> of every encrypt_data call
    failedAttempts,  \* history: consecutive "Invalid master password" results, no time passing
    session,         \* history: "locked" | "unlocked" | "expired", as the caller observes time
    pc,              \* concurrent dispatch: per task, "idle" | "loaded" | "done"
    task             \* concurrent dispatch: per task, the command's locals between load and save

vars == <<hashFile, vaultFile, rng, ret, issued, encHistory, failedAttempts, session, pc, task>>

(***************************************************************************)
(* Bounds of the model.                                                    *)
(***************************************************************************)
MaxRng == 4          \* draws of the random generator in one behaviour
MaxEntries == 2      \* entries a store holds before add_entry is no longer tried
MaxFailed == 5       \* the failed-attempt history saturates here
\* Bits of one draw of the random generator as generate_password uses it.
\* Stands for the 32 of next_u32, scaled down so that every draw value can be
\* counted; no pool size of the generator divides a power of two.
DrawBits == 8
\* Stands for u32::MAX, the top of PasswordEntry.id and PasswordStore.next_id.
\* TLC's integers are 32-bit signed, so the u32 range is scaled down to
\* 0..U32Max; the arithmetic at the top (wrap or panic) is the same.
U32Max == 7

(***************************************************************************)
(* Program constants.                                                      *)
(***************************************************************************)
NonceLen == 12       \* bytes of an Aes256Gcm nonce
MinMasterLen == 8    \* setup_master_password's minimum length
MinPasswordLength == 4     \* generate_password's range of lengths
MaxPasswordLength == 128
Iterations == 100000
Version == 1

(***************************************************************************)
(* Text.  Entry text is a sequence of characters so that search can look   *)
(* inside it; master passwords are compared and measured only.            *)
(***************************************************************************)
Passwords == {"hunter2", "correcthorse", "Tr0ub4dor&3x"}

None == [some |-> FALSE]
Some(v) == [some |-> TRUE, v |-> v]

InputFields ==
    { [title |-> <<"G", "h">>, username |-> <<"a", "b">>, password |-> <<"x">>,
       url |-> Some(<<"g", "h">>), notes |-> None],
      [title |-> <<"M", "x">>, username |-> <<"G", "H">>, password |-> <<"a", "a", "a">>,
       url |-> None, notes |-> Some(<<"g", "h">>)] }

Queries == {<<>>, <<"g", "h">>, <<"x">>}

Range(s) == {s[i] : i \in 1..Len(s)}

Lowercase ==
    <<"a", "b", "c", "d", "e", "f", "g", "h", "i", "j", "k", "l", "m", "n",
      "o", "p", "q", "r", "s", "t", "u", "v", "w", "x", "y", "z">>
Uppercase ==
    <<"A", "B", "C", "D", "E", "F", "G", "H", "I", "J", "K", "L", "M", "N",
      "O", "P", "Q", "R", "S", "T", "U", "V", "W", "X", "Y", "Z">>
Numbers ==
    <<"0", "1", "2", "3", "4", "5", "6", "7", "8", "9">>
Symbols ==
    <<"!", "@", "#", "$", "%", "^", "&", "*", "(", ")", "_", "+", "-", "=",
      "[", "]", "{", "}", "|", ";", ":", ",", ".", "<", ">", "?">>

\* char::to_lowercase on the characters in use: an ASCII capital becomes its
\* small letter, anything else is kept.
Lower(c) ==
    IF \E k \in 1..Len(Uppercase) : Uppercase[k] = c
    THEN Lowercase[CHOOSE k \in 1..Len(Uppercase) : Uppercase[k] = c]
    ELSE c

to_lowercase(s) == [i \in 1..Len(s) |-> Lower(s[i])]

contains(s, q) ==
    \E i \in 0..(Len(s) - Len(q)) : \A j \in 1..Len(q) : s[i + j] = q[j]

(***************************************************************************)
(* Results: Ok(v), Err(msg); Panic(msg) is a call that unwinds instead of  *)
(* returning.                                                              *)
(***************************************************************************)
Ok(v) == [tag |-> "Ok", val |-> v]
Err(msg) == [tag |-> "Err", val |-> msg]
Panic(msg) == [tag |-> "Panic", val |-> msg]

(***************************************************************************)
(* serde_json and base64: tagged wrappers, undone only by their inverse.   *)
(***************************************************************************)
to_json(store) == [json |-> store]
from_json(text) == text.json
b64encode(bytes) == [valid |-> TRUE, bytes |-> bytes]
BadBase64 == [valid |-> FALSE, bytes |-> <<>>]
EmptyString == [valid |-> TRUE, bytes |-> <<>>]

(***************************************************************************)
(* Files.                                                                  *)
(***************************************************************************)
NoFile == [exists |-> FALSE]
\* What fs::write leaves when it fails after File::create has truncated the
\* file: a file that is there and holds no parseable record.
PartialFile == [exists |-> TRUE, parsed |-> FALSE]
NoSalt == 0

PasswordStoreDefault == [entries |-> <<>>, next_id |-> 1]

Argon2Hash(password, salt) == <<password, salt>>

generate_key_from_password(password, salt) == Ok([kdf_pw |-> password, kdf_salt |-> salt])

\* Argon2::verify_password: a record without salt or hash never verifies.
verify_password(password, phc) ==
    /\ phc.salt # NoSalt
    /\ phc.hash = Argon2Hash(password, phc.salt)

verify_master_password(hf, password) ==
    IF ~hf.exists THEN Err("Master password not set")
    ELSE IF hf = PartialFile THEN Err("Failed to parse password hash")
    ELSE IF ~verify_password(password, hf) THEN Err("Invalid master password")
    ELSE IF hf.salt = NoSalt THEN Panic("called Option::unwrap() on a None value")
    ELSE generate_key_from_password(password, hf.salt)

\* encrypt_data: the nonce is the value the random generator returns to this call.
encrypt_data(data, key, drawn) ==
    Ok([ct |-> b64encode([pt |-> data, key |-> key, nonce |-> drawn, intact |-> TRUE]),
        nonce |-> b64encode([len |-> NonceLen, n |-> drawn])])

decrypt_data(encrypted_data, nonce, key) ==
    IF ~encrypted_data.valid THEN Err("Failed to decode ciphertext")
    ELSE IF ~nonce.valid THEN Err("Failed to decode nonce")
    ELSE IF nonce.bytes.len # NonceLen THEN Panic("assertion failed: Nonce::from_slice length")
    ELSE IF /\ encrypted_data.bytes.intact
            /\ encrypted_data.bytes.key = key
            /\ encrypted_data.bytes.nonce = nonce.bytes.n
         THEN Ok(encrypted_data.bytes.pt)
         ELSE Err("Decryption failed")

load_encrypted_store(vf) ==
    IF ~vf.exists THEN Err("Encrypted store not found")
    ELSE IF vf = PartialFile THEN Err("Failed to parse encrypted store")
    ELSE Ok(vf)

\* A faulty load_password_store, for comparison: it opens the container with the
\* key it was written under, whatever password the caller hands in.
load_password_store_cachedkey(hf, vf, master_password) ==
    IF ~hf.exists THEN Err("Master password not set")
    ELSE IF ~vf.exists THEN Err("Encrypted store not found")
    ELSE LET d == decrypt_data(vf.encrypted_data, vf.nonce, vf.encrypted_data.bytes.key)
         IN  IF d.tag # "Ok" THEN d ELSE Ok(from_json(d.val))

load_password_store(hf, vf, master_password) ==
    LET key == verify_master_password(hf, master_password)
    IN  IF key.tag # "Ok" THEN key
        ELSE LET es == load_encrypted_store(vf)
             IN  IF es.tag # "Ok" THEN es
                 ELSE LET d == decrypt_data(es.val.encrypted_data, es.val.nonce, key.val)
                      IN  IF d.tag # "Ok" THEN d ELSE Ok(from_json(d.val))

EmptyEncryptedStore ==
    [exists |-> TRUE, encrypted_data |-> EmptyString, nonce |-> EmptyString,
     salt |-> EmptyString, iterations |-> Iterations, version |-> Version]

\* A faulty save_password_store, for comparison: it carries the stored nonce
\* forward with the rest of the container's metadata.
save_password_store_keepnonce(hf, vf, store, master_password, drawn) ==
    LET key == verify_master_password(hf, master_password)
    IN  IF key.tag # "Ok" THEN key
        ELSE LET enc == encrypt_data(to_json(store), key.val,
                                     IF vf.exists /\ vf.nonce.valid THEN vf.nonce.bytes.n ELSE drawn)
                 old == load_encrypted_store(vf)
                 base == IF old.tag = "Ok" THEN old.val ELSE EmptyEncryptedStore
             IN  Ok([base EXCEPT !.encrypted_data = enc.val.ct, !.nonce = enc.val.nonce])

\* A faulty save_password_store, for comparison: it builds the container anew,
\* with a salt of its own, instead of loading the one on disk.
save_password_store_newcontainer(hf, vf, store, master_password, drawn) ==
    LET key == verify_master_password(hf, master_password)
    IN  IF key.tag # "Ok" THEN key
        ELSE LET enc == encrypt_data(to_json(store), key.val, drawn)
             IN  Ok([exists |-> TRUE, encrypted_data |-> enc.val.ct, nonce |-> enc.val.nonce,
                     salt |-> b64encode(drawn), iterations |-> Iterations,
                     version |-> Version])

\* save_password_store up to the fs::write: Ok(the container to write) or the error.
save_password_store(hf, vf, store, master_password, drawn) ==
    LET key == verify_master_password(hf, master_password)
    IN  IF key.tag # "Ok" THEN key
        ELSE LET enc == encrypt_data(to_json(store), key.val, drawn)
                 old == load_encrypted_store(vf)
                 base == IF old.tag = "Ok" THEN old.val ELSE EmptyEncryptedStore
             IN  Ok([base EXCEPT !.encrypted_data = enc.val.ct, !.nonce = enc.val.nonce])

(***************************************************************************)
(* calculate_password_strength, on a password given as its characters.     *)
(***************************************************************************)
LowerChars == Range(Lowercase)
UpperChars == Range(Uppercase)
DigitChars == Range(Numbers)
SymbolChars == Range(Symbols)

\* A faulty subtraction, for comparison: u8 arithmetic that wraps.
wrapping_sub(a, b) == (a - b) % 256

saturating_sub(a, b) == IF a >= b THEN a - b ELSE 0

Min(a, b) == IF a <= b THEN a ELSE b

calculate_password_strength(password) ==
    LET len == Len(password)
        s1 == IF len >= 8 THEN 20 ELSE 0
        s2 == s1 + (IF len >= 12 THEN 15 ELSE 0)
        s3 == s2 + (IF len >= 16 THEN 10 ELSE 0)
        s4 == s3 + (IF Range(password) \cap LowerChars # {} THEN 5 ELSE 0)
        s5 == s4 + (IF Range(password) \cap UpperChars # {} THEN 5 ELSE 0)
        s6 == s5 + (IF Range(password) \cap DigitChars # {} THEN 5 ELSE 0)
        s7 == s6 + (IF Range(password) \cap SymbolChars # {} THEN 10 ELSE 0)
        s8 == s7 + (IF Cardinality(Range(password)) > len \div 2 THEN 10 ELSE 0)
        common == \/ contains(to_lowercase(password), <<"p", "a", "s", "s", "w", "o", "r", "d">>)
                  \/ contains(to_lowercase(password), <<"1", "2", "3", "4", "5", "6">>)
                  \/ \E i \in 1..(len - 2) :
                        password[i] = password[i + 1] /\ password[i + 1] = password[i + 2]
        s9 == IF common THEN saturating_sub(s8, 20) ELSE s8
    IN  Min(s9, 100)

(***************************************************************************)
(* The store mutations of add_entry, update_entry and delete_entry,        *)
(* between load_password_store and save_password_store.                    *)
(***************************************************************************)
\* chrono::Utc::now(): the clock is read in ticks of the draw counter, which has
\* moved on between any two writes of the vault.
utc_now == rng

NewEntry(id, f, now) ==
    [id |-> id, title |-> f.title, username |-> f.username, password |-> f.password,
     url |-> f.url, notes |-> f.notes, created_at |-> now, modified_at |-> now,
     password_strength |-> calculate_password_strength(f.password)]

\* store.next_id += 1 on a u32: at the maximum a build with overflow checks
\* panics and a build without them wraps to 0.
IncrementNextId(next_id, overflow_checks) ==
    IF next_id < U32Max THEN Ok(next_id + 1)
    ELSE IF overflow_checks THEN Panic("attempt to add with overflow")
    ELSE Ok(0)

AddToStore(store, f, now, overflow_checks) ==
    LET inc == IncrementNextId(store.next_id, overflow_checks)
    IN  IF inc.tag # "Ok" THEN inc
        ELSE Ok([store |-> [store EXCEPT !.entries = Append(@, NewEntry(store.next_id, f, now)),
                                         !.next_id = inc.val],
                 id |-> store.next_id])

\* iter().position / iter_mut().find: the first entry with the id, 0 when none.
Position(entries, id) ==
    IF \E i \in 1..Len(entries) : entries[i].id = id
    THEN CHOOSE i \in 1..Len(entries) :
            /\ entries[i].id = id
            /\ \A j \in 1..(i - 1) : entries[j].id # id
    ELSE 0

\* A faulty update_entry, for comparison: it puts a newly made entry in the
\* place of the one found.
UpdateInStore_newentry(store, id, f, now) ==
    LET pos == Position(store.entries, id)
    IN  IF pos = 0 THEN Err("Entry not found")
        ELSE Ok([store EXCEPT !.entries[pos] = NewEntry(id, f, now)])

\* A faulty update_entry, for comparison: the strength computed when the entry
\* was added is kept.
UpdateInStore_stalestrength(store, id, f, now) ==
    LET pos == Position(store.entries, id)
    IN  IF pos = 0 THEN Err("Entry not found")
        ELSE Ok([store EXCEPT !.entries[pos] =
                    [@ EXCEPT !.title = f.title,
                              !.username = f.username,
                              !.password = f.password,
                              !.url = f.url,
                              !.notes = f.notes,
                              !.modified_at = now]])

UpdateInStore(store, id, f, now) ==
    LET pos == Position(store.entries, id)
    IN  IF pos = 0 THEN Err("Entry not found")
        ELSE Ok([store EXCEPT !.entries[pos] =
                    [@ EXCEPT !.title = f.title,
                              !.username = f.username,
                              !.password = f.password,
                              !.url = f.url,
                              !.notes = f.notes,
                              !.modified_at = now,
                              !.password_strength = calculate_password_strength(f.password)]])

RemoveAt(s, pos) == [i \in 1..(Len(s) - 1) |-> IF i < pos THEN s[i] ELSE s[i + 1]]

\* A faulty delete_entry, for comparison: it drops the last entry once the id
\* has been found.
DeleteFromStore_poplast(store, id) ==
    LET pos == Position(store.entries, id)
    IN  IF pos = 0 THEN Err("Entry not found")
        ELSE Ok([store EXCEPT !.entries = SubSeq(@, 1, Len(@) - 1)])

DeleteFromStore(store, id) ==
    LET pos == Position(store.entries, id)
    IN  IF pos = 0 THEN Err("Entry not found")
        ELSE Ok([store EXCEPT !.entries = RemoveAt(@, pos)])

\* A faulty filter, for comparison: it compares the text as stored.
Matches_casesensitive(entry, query) ==
    \/ contains(entry.title, query)
    \/ contains(entry.username, query)
    \/ (entry.url.some /\ contains(entry.url.v, query))

Matches(entry, query) ==
    \/ contains(to_lowercase(entry.title), to_lowercase(query))
    \/ contains(to_lowercase(entry.username), to_lowercase(query))
    \/ (entry.url.some /\ contains(to_lowercase(entry.url.v), to_lowercase(query)))

SearchStore(store, query) ==
    IF query = <<>> THEN store.entries
    ELSE SelectSeq(store.entries, LAMBDA e : Matches(e, query))

(***************************************************************************)
(* What a command hands back to its caller, with the two facts about the   *)
(* moment of the call that the session claims speak of.                    *)
(***************************************************************************)
Value(kind, v) ==
    CASE kind = "unit" -> [kind |-> kind, unit |-> v]
      [] kind = "bool" -> [kind |-> kind, bool |-> v]
      [] kind = "key" -> [kind |-> kind, key |-> v]
      [] kind = "id" -> [kind |-> kind, id |-> v]
      [] kind = "entry" -> [kind |-> kind, entry |-> v]
      [] kind = "entries" -> [kind |-> kind, entries |-> v]
      [] kind = "export" -> [kind |-> kind, export |-> v]
      [] kind = "plaintext" -> [kind |-> kind, plaintext |-> v]
      [] kind = "generated" -> [kind |-> kind, generated |-> v]
      [] kind = "strength" -> [kind |-> kind, strength |-> v]
      [] kind = "error" -> [kind |-> kind, error |-> v]
      [] kind = "panic" -> [kind |-> kind, panic |-> v]

Returned(op, res, kind, verified) ==
    [op |-> op, tag |-> res.tag,
     val |-> IF res.tag = "Ok" THEN Value(kind, res.val)
             ELSE IF res.tag = "Err" THEN Value("error", res.val)
             ELSE Value("panic", res.val),
     verified |-> verified,
     priorFails |-> failedAttempts,
     idle |-> (session = "expired")]

Verifies(master_password) == verify_master_password(hashFile, master_password).tag = "Ok"

\* A command that checked master_password: the caller's view of the attempt.
Attempt(master_password) ==
    LET v == verify_master_password(hashFile, master_password)
    IN  /\ failedAttempts' =
              IF v.tag = "Ok" THEN 0
              ELSE IF v.tag = "Err" /\ v.val = "Invalid master password"
                   THEN Min(failedAttempts + 1, MaxFailed)
                   ELSE failedAttempts
        /\ session' = IF v.tag = "Ok" THEN "unlocked" ELSE session

LogEncryption(container) ==
    Append(encHistory, <<container.encrypted_data.bytes.key, container.nonce.bytes.n>>)

(***************************************************************************)
(* Commands, each dispatched alone and run to completion.                  *)
(***************************************************************************)
setup_master_password(password) ==
    /\ rng + 2 <= MaxRng
    /\ IF Len(password) < MinMasterLen
       THEN /\ ret' = Returned("setup_master_password",
                               Err("Master password must be at least 8 characters long"), "unit", FALSE)
            /\ UNCHANGED <<hashFile, vaultFile, rng, issued, encHistory>>
       ELSE LET salt == rng + 1
                key == generate_key_from_password(password, salt)
                enc == encrypt_data(to_json(PasswordStoreDefault), key.val, rng + 2)
                container == [exists |-> TRUE,
                              encrypted_data |-> enc.val.ct,
                              nonce |-> enc.val.nonce,
                              salt |-> b64encode(salt),
                              iterations |-> Iterations,
                              version |-> Version]
            IN  /\ hashFile' = [exists |-> TRUE, salt |-> salt,
                                hash |-> Argon2Hash(password, salt)]
                /\ vaultFile' = container
                /\ rng' = rng + 2
                /\ issued' = <<>>
                /\ encHistory' = LogEncryption(container)
                /\ ret' = Returned("setup_master_password", Ok("unit"), "unit", FALSE)
    /\ UNCHANGED <<failedAttempts, session, pc, task>>

verify_master_password_command(password) ==
    /\ ret' = Returned("verify_master_password",
                       verify_master_password(hashFile, password), "key", Verifies(password))
    /\ Attempt(password)
    /\ UNCHANGED <<hashFile, vaultFile, rng, issued, encHistory, pc, task>>

has_master_password ==
    /\ ret' = Returned("has_master_password", Ok(hashFile.exists), "bool", FALSE)
    /\ UNCHANGED <<hashFile, vaultFile, rng, issued, encHistory, failedAttempts, session, pc, task>>

search_entries(query, master_password) ==
    LET store == load_password_store(hashFile, vaultFile, master_password)
    IN  /\ ret' = Returned("search_entries",
                           IF store.tag # "Ok" THEN store
                           ELSE Ok(SearchStore(store.val, query)), "entries",
                           Verifies(master_password))
        /\ Attempt(master_password)
        /\ UNCHANGED <<hashFile, vaultFile, rng, issued, encHistory, pc, task>>

get_entry_by_id(id, master_password) ==
    LET store == load_password_store(hashFile, vaultFile, master_password)
        pos == IF store.tag = "Ok" THEN Position(store.val.entries, id) ELSE 0
    IN  /\ ret' = Returned("get_entry_by_id",
                           IF store.tag # "Ok" THEN store
                           ELSE IF pos = 0 THEN Err("Entry not found")
                           ELSE Ok(store.val.entries[pos]), "entry",
                           Verifies(master_password))
        /\ Attempt(master_password)
        /\ UNCHANGED <<hashFile, vaultFile, rng, issued, encHistory, pc, task>>

\* The tail shared by the three mutating commands: changed is the result of the
\* mutation (Ok(store) or the error), value what the command returns on success.
Persist(op, kind, changed, value, master_password) ==
    LET saved == IF changed.tag # "Ok" THEN changed
                 ELSE save_password_store(hashFile, vaultFile, changed.val,
                                          master_password, rng + 1)
    IN  /\ IF saved.tag = "Ok"
           THEN /\ vaultFile' = saved.val
                /\ rng' = rng + 1
                /\ encHistory' = LogEncryption(saved.val)
                /\ ret' = Returned(op, Ok(value), kind, Verifies(master_password))
           ELSE /\ ret' = Returned(op, saved, kind, Verifies(master_password))
                /\ UNCHANGED <<vaultFile, rng, encHistory>>
        /\ issued' = IF saved.tag = "Ok" /\ op = "add_entry" THEN Append(issued, value) ELSE issued
        /\ Attempt(master_password)
        /\ UNCHANGED <<hashFile, pc, task>>

add_entry(f, master_password, overflow_checks) ==
    LET store == load_password_store(hashFile, vaultFile, master_password)
        added == IF store.tag # "Ok" THEN store ELSE AddToStore(store.val, f, utc_now, overflow_checks)
    IN  /\ rng + 1 <= MaxRng
        /\ store.tag = "Ok" => Len(store.val.entries) < MaxEntries
        /\ Persist("add_entry", "id",
                   IF added.tag = "Ok" THEN Ok(added.val.store) ELSE added,
                   IF added.tag = "Ok" THEN added.val.id ELSE 0,
                   master_password)

update_entry(id, f, master_password) ==
    LET store == load_password_store(hashFile, vaultFile, master_password)
    IN  /\ rng + 1 <= MaxRng
        /\ Persist("update_entry", "unit",
                   IF store.tag # "Ok" THEN store ELSE UpdateInStore(store.val, id, f, utc_now),
                   "unit", master_password)

delete_entry(id, master_password) ==
    LET store == load_password_store(hashFile, vaultFile, master_password)
    IN  /\ rng + 1 <= MaxRng
        /\ Persist("delete_entry", "unit",
                   IF store.tag # "Ok" THEN store ELSE DeleteFromStore(store.val, id),
                   "unit", master_password)

export_vault(export_password, master_password) ==
    LET store == load_password_store(hashFile, vaultFile, master_password)
        salt == rng + 1
        key == generate_key_from_password(export_password, salt)
        enc == encrypt_data(to_json(store.val), key.val, rng + 2)
        export == [exists |-> TRUE, version |-> Version, encrypted_data |-> enc.val.ct,
                   nonce |-> enc.val.nonce, salt |-> b64encode(salt)]
    IN  /\ rng + 2 <= MaxRng
        /\ IF store.tag = "Ok"
           THEN /\ rng' = rng + 2
                /\ encHistory' = LogEncryption(export)
                /\ ret' = Returned("export_vault", Ok(export), "export", Verifies(master_password))
           ELSE /\ ret' = Returned("export_vault", store, "export", Verifies(master_password))
                /\ UNCHANGED <<rng, encHistory>>
        /\ Attempt(master_password)
        /\ UNCHANGED <<hashFile, vaultFile, issued, pc, task>>

\* More than five minutes pass with no command: a session that was live is now
\* idle past the timeout, and any lockout window opened before has run out.
TimePasses ==
    /\ session = "unlocked" \/ failedAttempts > 0
    /\ session' = IF session = "unlocked" THEN "expired" ELSE session
    /\ failedAttempts' = 0
    /\ UNCHANGED <<hashFile, vaultFile, rng, ret, issued, encHistory, pc, task>>

(***************************************************************************)
(* Initial states: a fresh installation, a vault in long use whose id      *)
(* counter has reached the top of its range (every entry since deleted),   *)
(* or a vault in use that holds three entries, one id having been deleted. *)
(***************************************************************************)
Tasks == {1, 2}
IdInputs == {0, 1, 2, U32Max}
NoReturn == [op |-> "none", tag |-> "Ok", val |-> [kind |-> "unit", unit |-> "unit"],
             verified |-> FALSE, priorFails |-> 0, idle |-> FALSE]
NoTask == [op |-> "none"]

ContainerOf(store, password, salt, nonce) ==
    LET enc == encrypt_data(to_json(store), generate_key_from_password(password, salt).val, nonce)
    IN  [exists |-> TRUE, encrypted_data |-> enc.val.ct, nonce |-> enc.val.nonce,
         salt |-> b64encode(salt), iterations |-> Iterations, version |-> Version]

InitFresh ==
    /\ hashFile = NoFile
    /\ vaultFile = NoFile
    /\ rng = 0
    /\ issued = <<>>
    /\ encHistory = <<>>

InitLongUsed ==
    /\ hashFile = [exists |-> TRUE, salt |-> 1, hash |-> Argon2Hash("correcthorse", 1)]
    /\ vaultFile = ContainerOf([entries |-> <<>>, next_id |-> U32Max], "correcthorse", 1, 2)
    /\ rng = 2
    /\ issued = <<U32Max - 1>>
    /\ encHistory = <<<<generate_key_from_password("correcthorse", 1).val, 2>>>>

StoreInUse ==
    LET f1 == CHOOSE f \in InputFields : f.notes = None
        f2 == CHOOSE f \in InputFields : f.url = None
    IN  [entries |-> <<NewEntry(1, f1, 0), NewEntry(2, f2, 0), NewEntry(4, f1, 1)>>,
         next_id |-> 5]

InitInUse ==
    /\ hashFile = [exists |-> TRUE, salt |-> 1, hash |-> Argon2Hash("correcthorse", 1)]
    /\ vaultFile = ContainerOf(StoreInUse, "correcthorse", 1, 2)
    /\ rng = 2
    /\ issued = <<1, 2, 3, 4>>
    /\ encHistory = <<<<generate_key_from_password("correcthorse", 1).val, 2>>>>

Init ==
    /\ InitFresh \/ InitLongUsed \/ InitInUse
    /\ ret = NoReturn
    /\ failedAttempts = 0
    /\ session = "locked"
    /\ pc = [t \in Tasks |-> "idle"]
    /\ task = [t \in Tasks |-> NoTask]

Next ==
    \/ \E p \in Passwords : setup_master_password(p)
    \/ \E p \in Passwords : verify_master_password_command(p)
    \/ has_master_password
    \/ \E q \in Queries, p \in Passwords : search_entries(q, p)
    \/ \E id \in IdInputs, p \in Passwords : get_entry_by_id(id, p)
    \/ \E f \in InputFields, p \in Passwords, oc \in BOOLEAN : add_entry(f, p, oc)
    \/ \E id \in IdInputs, f \in InputFields, p \in Passwords : update_entry(id, f, p)
    \/ \E id \in IdInputs, p \in Passwords : delete_entry(id, p)
    \/ \E e \in Passwords, p \in Passwords : export_vault(e, p)
    \/ TimePasses

Spec == Init /\ [][Next]_vars

(***************************************************************************)
(* Concurrent dispatch.  The commands are async and take no lock, so the   *)
(* runtime may run two of them at once: each mutating command is then two  *)
(* steps, its load_password_store with the change made in memory, and its  *)
(* save_password_store, and steps of different tasks interleave.           *)
(***************************************************************************)
Loaded(op, changed, value, target, f, master_password) ==
    [op |-> op, store |-> changed, value |-> value, target |-> target, f |-> f,
     master_password |-> master_password, result |-> Ok("pending")]

Failed(op, res, target, f, master_password) ==
    [op |-> op, store |-> PasswordStoreDefault, value |-> 0, target |-> target, f |-> f,
     master_password |-> master_password, result |-> res]

LoadStep(t, op, changed, value, target, f, master_password) ==
    /\ pc[t] = "idle"
    /\ IF changed.tag = "Ok"
       THEN /\ pc' = [pc EXCEPT ![t] = "loaded"]
            /\ task' = [task EXCEPT ![t] = Loaded(op, changed.val, value, target, f, master_password)]
       ELSE /\ pc' = [pc EXCEPT ![t] = "done"]
            /\ task' = [task EXCEPT ![t] = Failed(op, changed, target, f, master_password)]
    /\ UNCHANGED <<hashFile, vaultFile, rng, ret, issued, encHistory, failedAttempts, session>>

add_entry_load(t, f, master_password, overflow_checks) ==
    LET store == load_password_store(hashFile, vaultFile, master_password)
        added == IF store.tag # "Ok" THEN store ELSE AddToStore(store.val, f, utc_now, overflow_checks)
    IN  LoadStep(t, "add_entry",
                 IF added.tag = "Ok" THEN Ok(added.val.store) ELSE added,
                 IF added.tag = "Ok" THEN added.val.id ELSE 0,
                 IF added.tag = "Ok" THEN added.val.id ELSE 0,
                 f, master_password)

update_entry_load(t, id, f, master_password) ==
    LET store == load_password_store(hashFile, vaultFile, master_password)
    IN  LoadStep(t, "update_entry",
                 IF store.tag # "Ok" THEN store ELSE UpdateInStore(store.val, id, f, utc_now),
                 0, id, f, master_password)

delete_entry_load(t, id, master_password) ==
    LET store == load_password_store(hashFile, vaultFile, master_password)
    IN  LoadStep(t, "delete_entry",
                 IF store.tag # "Ok" THEN store ELSE DeleteFromStore(store.val, id),
                 0, id, CHOOSE f \in InputFields : TRUE, master_password)

mutation_save(t) ==
    LET saved == save_password_store(hashFile, vaultFile, task[t].store,
                                     task[t].master_password, rng + 1)
    IN  /\ pc[t] = "loaded"
        /\ pc' = [pc EXCEPT ![t] = "done"]
        /\ IF saved.tag = "Ok"
           THEN /\ vaultFile' = saved.val
                /\ rng' = rng + 1
                /\ encHistory' = LogEncryption(saved.val)
                /\ task' = [task EXCEPT ![t].result = Ok("returned")]
           ELSE /\ task' = [task EXCEPT ![t].result = saved]
                /\ UNCHANGED <<vaultFile, rng, encHistory>>
        /\ UNCHANGED <<hashFile, ret, issued, failedAttempts, session>>

\* A vault set up with "correcthorse", empty or holding the entry a first add made.
InitConcurrent ==
    /\ hashFile = [exists |-> TRUE, salt |-> 1, hash |-> Argon2Hash("correcthorse", 1)]
    /\ \E f \in InputFields :
          \/ /\ vaultFile = ContainerOf(PasswordStoreDefault, "correcthorse", 1, 2)
             /\ rng = 2
             /\ issued = <<>>
          \/ /\ vaultFile = ContainerOf(
                    AddToStore(PasswordStoreDefault, f, 2, FALSE).val.store, "correcthorse", 1, 3)
             /\ rng = 3
             /\ issued = <<1>>
    /\ encHistory = <<<<generate_key_from_password("correcthorse", 1).val,
                        vaultFile.nonce.bytes.n>>>>
    /\ ret = NoReturn
    /\ failedAttempts = 0
    /\ session = "locked"
    /\ pc = [t \in Tasks |-> "idle"]
    /\ task = [t \in Tasks |-> NoTask]

NextConcurrent ==
    \E t \in Tasks :
        \/ \E f \in InputFields, p \in Passwords, oc \in BOOLEAN : add_entry_load(t, f, p, oc)
        \/ \E id \in IdInputs, f \in InputFields, p \in Passwords : update_entry_load(t, id, f, p)
        \/ \E id \in IdInputs, p \in Passwords : delete_entry_load(t, id, p)
        \/ mutation_save(t)

SpecConcurrent == InitConcurrent /\ [][NextConcurrent]_vars

(***************************************************************************)
(* The files are plain files in the user's data directory: anything able   *)
(* to write there may change their contents between two commands.          *)
(***************************************************************************)
tamper_nonce_length ==
    /\ vaultFile.exists
    /\ vaultFile.nonce.valid
    /\ vaultFile.nonce.bytes.len = NonceLen
    /\ vaultFile' = [vaultFile EXCEPT !.nonce.bytes.len = NonceLen - 1]
    /\ UNCHANGED <<hashFile, rng, ret, issued, encHistory, failedAttempts, session, pc, task>>

tamper_ciphertext ==
    /\ vaultFile.exists
    /\ vaultFile.encrypted_data.valid
    /\ vaultFile.encrypted_data.bytes.intact
    /\ vaultFile' = [vaultFile EXCEPT !.encrypted_data.bytes.intact = FALSE]
    /\ UNCHANGED <<hashFile, rng, ret, issued, encHistory, failedAttempts, session, pc, task>>

tamper_verifier_salt ==
    /\ hashFile.exists
    /\ hashFile.salt # NoSalt
    /\ hashFile' = [hashFile EXCEPT !.salt = NoSalt]
    /\ UNCHANGED <<vaultFile, rng, ret, issued, encHistory, failedAttempts, session, pc, task>>

InitInstalled ==
    /\ InitFresh
    /\ ret = NoReturn
    /\ failedAttempts = 0
    /\ session = "locked"
    /\ pc = [t \in Tasks |-> "idle"]
    /\ task = [t \in Tasks |-> NoTask]

NextTampered ==
    \/ Next
    \/ tamper_nonce_length
    \/ tamper_ciphertext
    \/ tamper_verifier_salt

SpecTampered == InitInstalled /\ [][NextTampered]_vars

(***************************************************************************)
(* Writes that fail.  fs::write creates or truncates the file and then     *)
(* writes the content; it can fail before the file is touched, or after    *)
(* the truncation (disk full, I/O error), and the command returns the      *)
(* error.  truncated tells which.                                          *)
(***************************************************************************)
FailedWrite(file, truncated) == IF truncated THEN PartialFile ELSE file

\* setup_master_password in which one of its two writes fails: at "hash" the
\* write of the verifier, at "vault" the write of the container that follows.
setup_master_password_write_fails(password, at, truncated) ==
    /\ rng + 2 <= MaxRng
    /\ Len(password) >= MinMasterLen
    /\ IF at = "hash"
       THEN /\ hashFile' = FailedWrite(hashFile, truncated)
            /\ rng' = rng + 1
            /\ ret' = Returned("setup_master_password",
                               Err("Failed to save master password hash"), "unit", FALSE)
            /\ UNCHANGED <<vaultFile, encHistory>>
       ELSE LET salt == rng + 1
                container == ContainerOf(PasswordStoreDefault, password, salt, rng + 2)
            IN  /\ hashFile' = [exists |-> TRUE, salt |-> salt,
                                hash |-> Argon2Hash(password, salt)]
                /\ vaultFile' = FailedWrite(vaultFile, truncated)
                /\ rng' = rng + 2
                /\ encHistory' = LogEncryption(container)
                /\ ret' = Returned("setup_master_password",
                                   Err("Failed to write encrypted store"), "unit", FALSE)
    /\ UNCHANGED <<issued, failedAttempts, session, pc, task>>

\* A mutating command whose store was loaded and changed, and whose
\* save_encrypted_store then fails.
PersistFails(op, changed, master_password, truncated) ==
    LET saved == IF changed.tag # "Ok" THEN changed
                 ELSE save_password_store(hashFile, vaultFile, changed.val,
                                          master_password, rng + 1)
    IN  /\ rng + 1 <= MaxRng
        /\ saved.tag = "Ok"
        /\ vaultFile' = FailedWrite(vaultFile, truncated)
        /\ rng' = rng + 1
        /\ encHistory' = LogEncryption(saved.val)
        /\ ret' = Returned(op, Err("Failed to write encrypted store"), "unit",
                           Verifies(master_password))
        /\ Attempt(master_password)
        /\ UNCHANGED <<hashFile, issued, pc, task>>

add_entry_write_fails(f, master_password, truncated) ==
    LET store == load_password_store(hashFile, vaultFile, master_password)
        added == IF store.tag # "Ok" THEN store
                 ELSE AddToStore(store.val, f, utc_now, FALSE)
    IN  PersistFails("add_entry",
                     IF added.tag = "Ok" THEN Ok(added.val.store) ELSE added,
                     master_password, truncated)

update_entry_write_fails(id, f, master_password, truncated) ==
    LET store == load_password_store(hashFile, vaultFile, master_password)
    IN  PersistFails("update_entry",
                     IF store.tag # "Ok" THEN store
                     ELSE UpdateInStore(store.val, id, f, utc_now),
                     master_password, truncated)

delete_entry_write_fails(id, master_password, truncated) ==
    LET store == load_password_store(hashFile, vaultFile, master_password)
    IN  PersistFails("delete_entry",
                     IF store.tag # "Ok" THEN store ELSE DeleteFromStore(store.val, id),
                     master_password, truncated)

NextFaulty ==
    \/ Next
    \/ \E p \in Passwords, at \in {"hash", "vault"}, truncated \in BOOLEAN :
          setup_master_password_write_fails(p, at, truncated)
    \/ \E f \in InputFields, p \in Passwords, truncated \in BOOLEAN :
          add_entry_write_fails(f, p, truncated)
    \/ \E id \in IdInputs, f \in InputFields, p \in Passwords, truncated \in BOOLEAN :
          update_entry_write_fails(id, f, p, truncated)
    \/ \E id \in IdInputs, p \in Passwords, truncated \in BOOLEAN :
          delete_entry_write_fails(id, p, truncated)

SpecFaulty == Init /\ [][NextFaulty]_vars

(***************************************************************************)
(* encrypt_data and decrypt_data on their own: a plaintext is encrypted    *)
(* under one key, the pair it returns is handed on as it is or altered,    *)
(* and decrypt_data is applied with the same or another key.               *)
(***************************************************************************)
CodecPlaintexts ==
    {to_json(PasswordStoreDefault)} \cup
    {to_json(AddToStore(PasswordStoreDefault, f, 2, FALSE).val.store) : f \in InputFields}

CodecKeys == {generate_key_from_password(p, salt).val : p \in Passwords, salt \in 1..2}

Alterations == {"none", "ciphertext", "nonce", "nonce_length",
                "ciphertext_not_base64", "nonce_not_base64"}

Alter(pair, how) ==
    CASE how = "none" -> pair
      [] how = "ciphertext" -> [pair EXCEPT !.ct.bytes.intact = FALSE]
      [] how = "nonce" -> [pair EXCEPT !.nonce.bytes.n = 0]
      [] how = "nonce_length" -> [pair EXCEPT !.nonce.bytes.len = NonceLen - 1]
      [] how = "ciphertext_not_base64" -> [pair EXCEPT !.ct = BadBase64]
      [] how = "nonce_not_base64" -> [pair EXCEPT !.nonce = BadBase64]

encrypt_then_decrypt(plaintext, key, with, how) ==
    LET pair == Alter(encrypt_data(plaintext, key, rng + 1).val, how)
        out == decrypt_data(pair.ct, pair.nonce, with)
    IN  /\ rng + 1 <= MaxRng
        /\ rng' = rng + 1
        /\ task' = [task EXCEPT ![1] = [op |-> "codec", plaintext |-> plaintext,
                                        key |-> key, with |-> with, how |-> how]]
        /\ ret' = Returned("decrypt_data", out, "plaintext", FALSE)
        /\ UNCHANGED <<hashFile, vaultFile, issued, encHistory, failedAttempts, session, pc>>

NextCodec ==
    \E pt \in CodecPlaintexts, k \in CodecKeys, w \in CodecKeys, how \in Alterations :
        encrypt_then_decrypt(pt, k, w, how)

SpecCodec == InitInstalled /\ [][NextCodec]_vars

(***************************************************************************)
(* generate_password.  The random generator hands it one draw per          *)
(* character; draws is the stream of those values.                         *)
(***************************************************************************)
DrawSpace == 2 ^ DrawBits

DrawValues == 0..(DrawSpace - 1)

\* A faulty charset, for comparison: the letters are in the pool whatever the
\* caller selects.
Charset_alwaysletters(include_uppercase, include_lowercase, include_numbers, include_symbols) ==
    Lowercase
        \o (IF include_uppercase THEN Uppercase ELSE <<>>)
        \o (IF include_numbers THEN Numbers ELSE <<>>)
        \o (IF include_symbols THEN Symbols ELSE <<>>)

Charset(include_uppercase, include_lowercase, include_numbers, include_symbols) ==
    (IF include_lowercase THEN Lowercase ELSE <<>>)
        \o (IF include_uppercase THEN Uppercase ELSE <<>>)
        \o (IF include_numbers THEN Numbers ELSE <<>>)
        \o (IF include_symbols THEN Symbols ELSE <<>>)

\* (rng.next_u32() as usize) % chars.len()
draw_index(draw, n) == draw % n

generate_password(length, include_uppercase, include_lowercase, include_numbers, include_symbols, draws) ==
    IF length < MinPasswordLength \/ length > MaxPasswordLength
    THEN Err("Password length must be between 4 and 128 characters")
    ELSE LET chars == Charset(include_uppercase, include_lowercase,
                              include_numbers, include_symbols)
         IN  IF Len(chars) = 0
             THEN Err("At least one character type must be selected")
             ELSE Ok([i \in 1..length |-> chars[draw_index(draws[i], Len(chars)) + 1]])

GeneratorLengths == {0, MinPasswordLength - 1, MinPasswordLength, 12,
                     MaxPasswordLength, MaxPasswordLength + 1}

DrawStreams ==
    {[i \in 1..MaxPasswordLength |-> (a + b * i) % DrawSpace] : a \in {0, 201}, b \in {1, 7, 89}}

generate_password_command(length, uc, lc, num, sym, draws) ==
    /\ task' = [task EXCEPT ![1] = [op |-> "generate_password", length |-> length,
                                    include_uppercase |-> uc, include_lowercase |-> lc,
                                    include_numbers |-> num, include_symbols |-> sym]]
    /\ ret' = Returned("generate_password",
                       generate_password(length, uc, lc, num, sym, draws), "generated", FALSE)
    /\ UNCHANGED <<hashFile, vaultFile, rng, issued, encHistory, failedAttempts, session, pc>>

NextGenerator ==
    \E length \in GeneratorLengths, uc \in BOOLEAN, lc \in BOOLEAN, num \in BOOLEAN,
       sym \in BOOLEAN, draws \in DrawStreams :
        generate_password_command(length, uc, lc, num, sym, draws)

SpecGenerator == InitInstalled /\ [][NextGenerator]_vars

(***************************************************************************)
(* calculate_password_strength on its own: it is applied to one password   *)
(* after another, and the call before the last is remembered with its      *)
(* result so that two scores can be compared.                              *)
(***************************************************************************)
ShortLen == 4

\* Short passwords of characters that belong to none of the four classes.
ShortPasswords == UNION {[1..n -> {"~", "/"}] : n \in (ShortLen - 1)..ShortLen}

ChosenPasswords ==
    { <<"a", "a", "a">>,
      <<"a", "b", "a">>,
      <<"a", "a", "a", "b">>,
      <<"a", "b", "a", "b">>,
      <<"a", "1", "!", "A">>,
      <<"p", "a", "s", "s", "w", "o", "r", "d">>,
      <<"a", "a", "a", "b", "c", "d", "e", "f">>,
      <<"a", "b", "c", "d", "e", "f", "g", "h">>,
      <<"P", "a", "s", "s", "w", "0", "r", "d", "!">>,
      <<"1", "2", "3", "4", "5", "6">>,
      <<"a", "1", "2", "3", "4", "5", "6", "b">>,
      <<"a", "b", "c", "d", "e", "f", "g", "h", "i", "j", "k", "l">>,
      <<"a", "b", "c", "d", "e", "f", "g", "h", "i", "j", "k", "l", "m", "n", "o", "p">>,
      <<"a", "a", "a", "a", "a", "a", "a", "a", "a", "a", "a", "a", "a", "a", "a", "a", "a">>,
      <<"a", "b", "c", "d", "e", "f", "g", "h", "i", "j", "k", "l", "m", "n", "o", "p", "q">>,
      <<"A", "b", "c", "d", "e", "f", "g", "h", "i", "j", "k", "l", "m", "1", "!", "x">>,
      <<"p", "a", "s", "s", "w", "o", "r", "d", "p", "a", "s", "s", "w", "o">>,
      <<"a", "a", "a", "b", "c", "d", "e", "f", "g", "h", "i", "j", "k", "l">>,
      <<"P", "A", "S", "S", "W", "O", "R", "D">> }

StrengthInputs == {<<>>} \cup ShortPasswords \cup ChosenPasswords

score_password(password) ==
    /\ task' = [task EXCEPT ![1] = [op |-> "strength", password |-> password,
                                    strength |-> calculate_password_strength(password)],
                            ![2] = IF task[1].op = "strength" THEN task[1] ELSE @]
    /\ ret' = Returned("calculate_password_strength",
                       Ok(calculate_password_strength(password)), "strength", FALSE)
    /\ UNCHANGED <<hashFile, vaultFile, rng, issued, encHistory, failedAttempts, session, pc>>

NextStrength == \E password \in StrengthInputs : score_password(password)

SpecStrength == InitInstalled /\ [][NextStrength]_vars

(***************************************************************************)
(* Properties.                                                             *)
(***************************************************************************)
EntryOps == {"search_entries", "add_entry", "update_entry", "delete_entry",
             "get_entry_by_id", "export_vault"}

\* The store inside the container on disk, for the holder of its key.
PersistedStore == from_json(vaultFile.encrypted_data.bytes.pt)

HasPersistedStore ==
    /\ vaultFile.exists
    /\ vaultFile # PartialFile
    /\ vaultFile.encrypted_data.valid
    /\ vaultFile.encrypted_data.bytes.intact

\* C1: the ids returned by successful add_entry calls on a vault are strictly
\* increasing in the order returned, across deletions; none is issued twice.
C1_IdsStrictlyIncreasing ==
    \A i, j \in 1..Len(issued) : i < j => issued[i] < issued[j]

\* C2: in every persisted store next_id is greater than the id of every entry
\* and no two entries share an id.
C2_NextIdAboveEveryId ==
    HasPersistedStore =>
        LET st == PersistedStore
        IN  /\ \A i \in 1..Len(st.entries) : st.entries[i].id < st.next_id
            /\ \A i, j \in 1..Len(st.entries) : i # j => st.entries[i].id # st.entries[j].id

\* C4: an entry operation called with a master password that does not verify
\* returns an error, carries no entry data, and leaves both files as they were.
C4_UnauthenticatedStep ==
    (ret'.op \in EntryOps /\ ~ret'.verified) =>
        /\ ret'.tag = "Err"
        /\ ret'.val.kind = "error"
        /\ hashFile' = hashFile
        /\ vaultFile' = vaultFile

C4_UnauthenticatedRejected == [][C4_UnauthenticatedStep]_vars

C4_Witness ==
    /\ ret.op = "add_entry"
    /\ ~ret.verified
    /\ ret.tag = "Err"
    /\ hashFile.exists
    /\ HasPersistedStore
    /\ Len(PersistedStore.entries) > 0

\* C5: a call that follows 5 consecutive failed authentication attempts, with
\* no time having passed, fails even when its password is the right one.
C5_LockedAfterFiveFailures ==
    (ret.op \in EntryOps \cup {"verify_master_password"} /\ ret.priorFails >= 5) =>
        ret.tag = "Err"

\* C6: an entry operation called on a session idle for longer than the
\* timeout is rejected.
C6_IdleSessionRejected ==
    (ret.op \in EntryOps /\ ret.idle) => ret.tag = "Err"

\* C7: no two encryptions use the same nonce under the same key: every write
\* of the container and every export carries a nonce of its own.
C7_NoNonceReuse ==
    \A i, j \in 1..Len(encHistory) : i < j => encHistory[i] # encHistory[j]

C7_Witness ==
    /\ Len(encHistory) >= 3
    /\ encHistory[1][1] = encHistory[2][1]
    /\ encHistory[2][1] = encHistory[3][1]
    /\ ret.op \in {"add_entry", "update_entry", "delete_entry"}
    /\ ret.tag = "Ok"

\* C10: no command of the surface returns the derived encryption key.
C10_KeyNeverReturned == ret.val.kind # "key"

\* The entry holds the id and the fields a caller supplied.
Carries(entry, id, f) ==
    /\ entry.id = id
    /\ entry.title = f.title
    /\ entry.username = f.username
    /\ entry.password = f.password
    /\ entry.url = f.url
    /\ entry.notes = f.notes

\* C3: two mutating commands dispatched at once are serialized, so that once
\* both have returned success the persisted store holds both changes and two
\* adds have received different ids.
Reflected(t, st) ==
    LET pos == Position(st.entries, task[t].target)
    IN  CASE task[t].op = "add_entry" ->
                pos # 0 /\ Carries(st.entries[pos], task[t].value, task[t].f)
          [] task[t].op = "update_entry" ->
                pos # 0 /\ Carries(st.entries[pos], task[t].target, task[t].f)
          [] task[t].op = "delete_entry" -> pos = 0

Succeeded(t) == pc[t] = "done" /\ task[t].result.tag = "Ok"

C3_NoLostUpdate ==
    \A t, u \in Tasks :
        (t # u /\ Succeeded(t) /\ Succeeded(u)) =>
            /\ (task[t].op = "add_entry" /\ task[u].op = "add_entry")
                  => task[t].value # task[u].value
            /\ task[t].target # task[u].target
                  => Reflected(t, PersistedStore) /\ Reflected(u, PersistedStore)

\* C8: decrypt_data gives back the plaintext when applied, with the same key,
\* to what encrypt_data returned; with another key, or with the ciphertext or
\* the nonce altered, it returns an error.
C8_RoundTripOrError ==
    ret.op = "decrypt_data" =>
        IF task[1].key = task[1].with /\ task[1].how = "none"
        THEN ret.tag = "Ok" /\ ret.val.plaintext = task[1].plaintext
        ELSE ret.tag = "Err"

\* C9: every command completes by returning a success value or an error value,
\* whatever the caller passes and whatever the two files contain.
C9_NoAbnormalTermination == ret.tag # "Panic"

\* C11: search returns exactly the entries whose title, username or url (when
\* present) contains the query ignoring case, in stored order; the empty query
\* returns every entry; notes and password are not looked at; the files stay
\* as they were.
C11_Hit(e, q) ==
    \E text \in {e.title, e.username} \cup (IF e.url.some THEN {e.url.v} ELSE {}) :
        \E i \in 0..(Len(text) - Len(q)) :
            \A j \in 1..Len(q) : Lower(text[i + j]) = Lower(q[j])

C11_SearchStep ==
    \A q \in Queries, p \in Passwords :
        (ret'.op = "search_entries" /\ ret'.tag = "Ok" /\ search_entries(q, p)) =>
            /\ ret'.val.entries = SelectSeq(PersistedStore.entries, LAMBDA e : C11_Hit(e, q))
            /\ q = <<>> => ret'.val.entries = PersistedStore.entries
            /\ vaultFile' = vaultFile
            /\ hashFile' = hashFile

C11_SearchReturnsMatches == [][C11_SearchStep]_vars

\* A search over two stored entries that returned one of them, the other
\* holding the query in its password only.
C11_Witness ==
    /\ ret.op = "search_entries"
    /\ ret.tag = "Ok"
    /\ HasPersistedStore
    /\ Len(PersistedStore.entries) = 2
    /\ Len(ret.val.entries) = 1
    /\ \E i \in 1..2 : /\ PersistedStore.entries[i].password = <<"x">>
                        /\ PersistedStore.entries[i] # ret.val.entries[1]

\* C12: a successful add returns the next_id the store had before the call,
\* appends one entry with that id and the supplied fields at the end, raises
\* next_id by exactly one and leaves the entries already there as they were;
\* the first add after setup returns 1.
C12_AddStep ==
    \A f \in InputFields, p \in Passwords, oc \in BOOLEAN :
        (ret'.op = "add_entry" /\ ret'.tag = "Ok" /\ add_entry(f, p, oc)) =>
            /\ ret'.val.id = PersistedStore.next_id
            /\ Len(PersistedStore'.entries) = Len(PersistedStore.entries) + 1
            /\ SubSeq(PersistedStore'.entries, 1, Len(PersistedStore.entries))
                  = PersistedStore.entries
            /\ Carries(PersistedStore'.entries[Len(PersistedStore'.entries)], ret'.val.id, f)
            /\ PersistedStore'.next_id = PersistedStore.next_id + 1
            /\ ret.op = "setup_master_password" /\ ret.tag = "Ok" => ret'.val.id = 1

C12_AddAppendsAndIncrements == [][C12_AddStep]_vars

\* C13: update on an id the store does not hold fails with "Entry not found"
\* and leaves the vault file as it was; on an id it holds, it replaces title,
\* username, password, url and notes of that entry, which keeps its id,
\* created_at and position, and every other entry and next_id stay the same.
C13_UpdateStep ==
    \A id \in IdInputs, f \in InputFields, p \in Passwords :
        (ret'.op = "update_entry" /\ ret'.verified /\ HasPersistedStore
            /\ update_entry(id, f, p)) =>
            LET old == PersistedStore
                new == PersistedStore'
            IN  IF \A i \in 1..Len(old.entries) : old.entries[i].id # id
                THEN /\ ret'.tag = "Err"
                     /\ ret'.val.error = "Entry not found"
                     /\ vaultFile' = vaultFile
                ELSE /\ ret'.tag = "Ok"
                     /\ Len(new.entries) = Len(old.entries)
                     /\ new.next_id = old.next_id
                     /\ \A i \in 1..Len(old.entries) :
                           IF old.entries[i].id = id
                           THEN /\ Carries(new.entries[i], id, f)
                                /\ new.entries[i].created_at = old.entries[i].created_at
                           ELSE new.entries[i] = old.entries[i]

C13_UpdateReplacesOneEntry == [][C13_UpdateStep]_vars

\* An update of one of three stored entries, some time after it was created.
C13_Witness ==
    /\ ret.op = "update_entry"
    /\ ret.tag = "Ok"
    /\ HasPersistedStore
    /\ Len(PersistedStore.entries) = 3
    /\ \E i \in 1..3 :
          /\ PersistedStore.entries[i].modified_at > PersistedStore.entries[i].created_at
          /\ PersistedStore.entries[i].title # StoreInUse.entries[i].title

\* C14: delete on an id the store does not hold fails with "Entry not found"
\* and leaves the vault file as it was; on an id it holds, it removes that
\* entry and no other, keeps the rest in their order, and does not lower
\* next_id.
C14_DeleteStep ==
    \A id \in IdInputs, p \in Passwords :
        (ret'.op = "delete_entry" /\ ret'.verified /\ HasPersistedStore
            /\ delete_entry(id, p)) =>
            LET old == PersistedStore
                new == PersistedStore'
            IN  IF \A i \in 1..Len(old.entries) : old.entries[i].id # id
                THEN /\ ret'.tag = "Err"
                     /\ ret'.val.error = "Entry not found"
                     /\ vaultFile' = vaultFile
                ELSE /\ ret'.tag = "Ok"
                     /\ new.entries = SelectSeq(old.entries, LAMBDA e : e.id # id)
                     /\ Len(new.entries) = Len(old.entries) - 1
                     /\ new.next_id >= old.next_id

C14_DeleteRemovesOneEntry == [][C14_DeleteStep]_vars

\* A delete that left two of three entries, the last of the three among them.
C14_Witness ==
    /\ ret.op = "delete_entry"
    /\ ret.tag = "Ok"
    /\ HasPersistedStore
    /\ Len(PersistedStore.entries) = 2
    /\ PersistedStore.entries[2] = StoreInUse.entries[3]

\* C15: generate_password fails with the invalid-length error when length is
\* outside 4..128, fails with the no-character-classes error when no class is
\* selected, and otherwise returns exactly length characters, each of a
\* selected class.
C15_Selected(call) ==
    (IF call.include_lowercase THEN Range(Lowercase) ELSE {})
        \cup (IF call.include_uppercase THEN Range(Uppercase) ELSE {})
        \cup (IF call.include_numbers THEN Range(Numbers) ELSE {})
        \cup (IF call.include_symbols THEN Range(Symbols) ELSE {})

C15_GeneratorContract ==
    ret.op = "generate_password" =>
        LET call == task[1]
        IN  IF call.length < 4 \/ call.length > 128
            THEN /\ ret.tag = "Err"
                 /\ ret.val.error = "Password length must be between 4 and 128 characters"
            ELSE IF C15_Selected(call) = {}
            THEN /\ ret.tag = "Err"
                 /\ ret.val.error = "At least one character type must be selected"
            ELSE /\ ret.tag = "Ok"
                 /\ Len(ret.val.generated) = call.length
                 /\ \A i \in 1..call.length : ret.val.generated[i] \in C15_Selected(call)

\* Twelve characters of lowercase letters and digits, both kinds among them.
C15_Witness ==
    /\ ret.op = "generate_password"
    /\ ret.tag = "Ok"
    /\ task[1].length = 12
    /\ task[1].include_lowercase /\ task[1].include_numbers
    /\ ~task[1].include_uppercase /\ ~task[1].include_symbols
    /\ Range(ret.val.generated) \cap Range(Numbers) # {}
    /\ Range(ret.val.generated) \cap Range(Lowercase) # {}

\* C16: for every non-empty selection of classes, each character of the pool
\* is selected by the same number of the possible values of one draw.
C16_DrawCounts(chars) ==
    [k \in 1..Len(chars) |->
        Cardinality({d \in DrawValues : chars[draw_index(d, Len(chars)) + 1] = chars[k]})]

C16_UniformDraw ==
    (ret.op = "generate_password" /\ ret.tag = "Ok") =>
        LET chars == Charset(task[1].include_uppercase, task[1].include_lowercase,
                             task[1].include_numbers, task[1].include_symbols)
            counts == C16_DrawCounts(chars)
        IN  \A k \in 1..Len(chars) : counts[k] = counts[1]

\* C17: calculate_password_strength gives the same result for the same
\* password, always within 0..100: 20, 15 and 10 for a length of at least 8,
\* 12 and 16, 5 each for a lowercase letter, an uppercase letter and a digit,
\* 10 for a symbol, 10 when the distinct characters number more than half the
\* length, then 20 less, though not below 0, when the lowercased password
\* contains "password" or "123456" or the password has three identical
\* characters in a row.  A password with such a run scores strictly less than
\* a password of the same length and classes that has none of the three
\* patterns and scores above 0.
C17_HasRun(pw) ==
    \E i \in 1..(Len(pw) - 2) : pw[i] = pw[i + 1] /\ pw[i] = pw[i + 2]

C17_Has(pw, word) ==
    \E i \in 0..(Len(pw) - Len(word)) :
        \A j \in 1..Len(word) : Lower(pw[i + j]) = word[j]

C17_Penalised(pw) ==
    \/ C17_Has(pw, <<"p", "a", "s", "s", "w", "o", "r", "d">>)
    \/ C17_Has(pw, <<"1", "2", "3", "4", "5", "6">>)
    \/ C17_HasRun(pw)

C17_Classes(pw) ==
    {c \in {"lowercase", "uppercase", "digit", "symbol"} :
        \E i \in 1..Len(pw) :
            pw[i] \in Range(CASE c = "lowercase" -> Lowercase
                              [] c = "uppercase" -> Uppercase
                              [] c = "digit" -> Numbers
                              [] c = "symbol" -> Symbols)}

C17_Points(pw) ==
    (IF Len(pw) >= 8 THEN 20 ELSE 0) + (IF Len(pw) >= 12 THEN 15 ELSE 0)
        + (IF Len(pw) >= 16 THEN 10 ELSE 0)
        + 5 * Cardinality(C17_Classes(pw) \ {"symbol"})
        + (IF "symbol" \in C17_Classes(pw) THEN 10 ELSE 0)
        + (IF 2 * Cardinality({pw[i] : i \in 1..Len(pw)}) > Len(pw) THEN 10 ELSE 0)

C17_Score(pw) ==
    IF ~C17_Penalised(pw) THEN C17_Points(pw)
    ELSE IF C17_Points(pw) > 20 THEN C17_Points(pw) - 20 ELSE 0

C17_Formula ==
    ret.op = "calculate_password_strength" =>
        /\ ret.val.strength = C17_Score(task[1].password)
        /\ ret.val.strength \in 0..100
        /\ (task[2].op = "strength" /\ task[2].password = task[1].password)
              => task[2].strength = ret.val.strength

C17_Comparable ==
    /\ ret.op = "calculate_password_strength"
    /\ task[2].op = "strength"
    /\ C17_HasRun(task[1].password)
    /\ ~C17_HasRun(task[2].password)
    /\ Len(task[1].password) = Len(task[2].password)
    /\ C17_Classes(task[1].password) = C17_Classes(task[2].password)

C17_StrengthAmended ==
    /\ C17_Formula
    /\ (C17_Comparable /\ ~C17_Penalised(task[2].password) /\ task[2].strength > 0)
          => ret.val.strength < task[2].strength

\* Seventeen identical characters scored after seventeen different ones.
C17_Witness ==
    /\ C17_Comparable
    /\ Len(task[1].password) = 17
    /\ Cardinality(Range(task[1].password)) = 1
    /\ Cardinality(Range(task[2].password)) = 17
    /\ ret.val.strength < task[2].strength

\* C17 as stated: the same, with the run scoring strictly less than any
\* password of the same length and classes without a run.
C17_StrengthAsStated ==
    /\ C17_Formula
    /\ C17_Comparable => ret.val.strength < task[2].strength

\* C18: a save replaces the vault file as a whole: whenever the file is read,
\* during or after a save and also after a save that failed part-way, it
\* holds a complete container, the one before the save or the new one.
C18_ReaderSeesWholeContainer ==
    vaultFile.exists => load_encrypted_store(vaultFile).tag = "Ok"

\* C19: once a verifier file exists, no later command, a further
\* setup_master_password included, overwrites it or puts an empty store in
\* the place of the vault.
C19_Step ==
    hashFile.exists =>
        /\ hashFile' = hashFile
        /\ (HasPersistedStore /\ Len(PersistedStore.entries) > 0)
              => PersistedStore' # PasswordStoreDefault

C19_VerifierWrittenOnce == [][C19_Step]_vars

\* C20: whenever both files exist, also after a setup whose vault write
\* failed once its verifier write had succeeded, the container decrypts under
\* the key derived from a password the verifier accepts and the verifier's
\* salt.
C20_VerifierAndContainerPaired ==
    (hashFile.exists /\ vaultFile.exists) =>
        \E p \in Passwords :
            /\ verify_master_password(hashFile, p).tag = "Ok"
            /\ load_password_store(hashFile, vaultFile, p).tag = "Ok"

\* C21: in every persisted store, each entry's password_strength is
\* calculate_password_strength of the password the entry holds.
C21_StrengthMatchesPassword ==
    HasPersistedStore =>
        \A i \in 1..Len(PersistedStore.entries) :
            PersistedStore.entries[i].password_strength
                = calculate_password_strength(PersistedStore.entries[i].password)

\* An update that gave an entry a password of another strength.
C21_Witness ==
    /\ ret.op = "update_entry"
    /\ ret.tag = "Ok"
    /\ HasPersistedStore
    /\ Len(PersistedStore.entries) = 3
    /\ \E i \in 1..3 :
          /\ PersistedStore.entries[i].id = StoreInUse.entries[i].id
          /\ PersistedStore.entries[i].password # StoreInUse.entries[i].password
          /\ PersistedStore.entries[i].password_strength
                # StoreInUse.entries[i].password_strength

\* C22: a save made by add_entry, update_entry or delete_entry changes the
\* encrypted_data and nonce of the container on disk and nothing else: salt,
\* iterations and version are those of the container that was there before,
\* and the verifier file is not touched.
C22_Saved ==
    /\ ret'.tag = "Ok"
    /\ \/ ret'.op = "add_entry"
          /\ \E f \in InputFields, p \in Passwords, oc \in BOOLEAN : add_entry(f, p, oc)
       \/ ret'.op = "update_entry"
          /\ \E id \in IdInputs, f \in InputFields, p \in Passwords : update_entry(id, f, p)
       \/ ret'.op = "delete_entry"
          /\ \E id \in IdInputs, p \in Passwords : delete_entry(id, p)

C22_SaveStep ==
    C22_Saved =>
        /\ vaultFile'.salt = vaultFile.salt
        /\ vaultFile'.iterations = vaultFile.iterations
        /\ vaultFile'.version = vaultFile.version
        /\ vaultFile'.encrypted_data # vaultFile.encrypted_data
        /\ vaultFile'.nonce # vaultFile.nonce
        /\ hashFile' = hashFile

C22_SaveKeepsMetadata == [][C22_SaveStep]_vars

\* Two saves after setup: the container carries the salt setup put there and
\* the nonce of the second save.
C22_Witness ==
    /\ ret.op \in {"add_entry", "update_entry", "delete_entry"}
    /\ ret.tag = "Ok"
    /\ HasPersistedStore
    /\ vaultFile.salt = b64encode(hashFile.salt)
    /\ vaultFile.iterations = Iterations
    /\ vaultFile.nonce.bytes.n = hashFile.salt + 3

====
